---- MODULE Spec2Model ----
(***************************************************************************)
(* Model of the news-sentiment backtest: the per-market simulation of      *)
(* Backtester.run_for_market / run_for_all_markets (src/backtest.py), the  *)
(* summary statistics of Backtester.summarize_trades and the hourly        *)
(* feature builder build_macro_sentiment_timeseries (src/features.py).     *)
(*                                                                         *)
(* Numbers.  Python floats are modelled as exact rationals <<n, d>> in     *)
(* lowest terms with d > 0.  Prices are kept in percent (price 0.40 is     *)
(* 40), so the gate 0.25 <= price <= 0.75 is 25 <= p <= 75.  Instants are  *)
(* integers counting units of 1/UnitsPerHour hour since an epoch that lies *)
(* on an hour boundary.  An Optional value is a sequence of length <= 1:   *)
(* None is <<>> and a value x is <<x>>.                                    *)
(***************************************************************************)
EXTENDS Integers, Sequences, FiniteSets, TLC

VARIABLES
    pc,              \* position of the caller / of run_for_all_markets
    settings,        \* the Settings object handed to Backtester
    markets_config,  \* the list of MarketConfig given to run_for_all_markets
    price_exists,    \* configured token_id -> whether its price file exists
    df_sentiment,    \* the caller's sentiment frame
    sentiment_input, \* the sentiment frame as it was handed in
    df_prices_file,  \* the frame read from the current market's price file
    df_prices_read,  \* that frame as pd.read_parquet returned it
    results,         \* the list `results` of run_for_all_markets
    returned,        \* Optional: the rows of the DataFrame returned
    error,           \* Optional: the exception that left run_for_all_markets
    mi,              \* index of the current market in markets_config
    rows,            \* run_for_market's local df_prices (filtered, ts index)
    local_sentiment, \* run_for_market's local df_sentiment (ts index)
    ti,              \* index of the next row of the scan
    position,        \* Optional: run_for_market's `position`
    open_log,        \* every assignment to `position` made in the current run
    result,          \* Optional: the TradeResult run_for_market returns
    df_trades,       \* the rows handed to summarize_trades
    summary,         \* Optional: the dict summarize_trades returns
    clock,           \* the wall clock datetime.now() reads
    df_labeled_news, \* the labeled news handed to the feature builder
    feature_runs,    \* the frames returned by the calls of the feature builder
    features_file,   \* Optional: macro_news_features_1h.parquet
    df_news,         \* the articles handed to label_news_articles, each with
                     \* the answer the labeling API gives for it
    openai_api_key,  \* settings.openai_api_key is set
    label_pc,        \* position of label_news_articles
    li,              \* index of the next article to label
    labeled_rows,    \* the list `labeled_rows`
    label_returned,  \* Optional: the rows of the frame returned
    label_error      \* Optional: the exception that left label_news_articles

backtest_vars ==
    <<pc, settings, markets_config, price_exists, df_sentiment,
      sentiment_input, df_prices_file, df_prices_read, results, returned,
      error, mi, rows, local_sentiment, ti, position, open_log, result>>
stats_vars == <<df_trades, summary>>
feature_vars == <<clock, df_labeled_news, feature_runs, features_file>>

label_vars ==
    <<df_news, openai_api_key, label_pc, li, labeled_rows, label_returned,
      label_error>>

vars == <<backtest_vars, stats_vars, feature_vars, label_vars>>

----------------------------------------------------------------------------
(* Bounds of the model *)

UnitsPerHour == 2
MaxTicks == 2
MaxMarkets == 2
MaxRows == 3
MaxEvents == 2
MaxRuns == 2
MaxArticles == 2
\* 24 * 30 * backtest_months hours and sentiment_window_hours (defaults 4320 and
\* 6, src/config.py:15-16), scaled down
LookbackHours == 3
SentimentWindowHours == 2

(* Program constants: the defaults of Settings *)
MaxHoursToResolveForEntry == 72
TradeSizeUsd == 100

----------------------------------------------------------------------------
(* Exact rationals standing for floats *)

Abs(n) == IF n < 0 THEN -n ELSE n

RECURSIVE GCD(_, _)
GCD(a, b) == IF b = 0 THEN a ELSE GCD(b, a % b)

Rat(n, d) ==
    LET g == GCD(Abs(n), d)
    IN  IF n = 0 THEN <<0, 1>> ELSE <<n \div g, d \div g>>

\* float division n / d of two integers: 0/0 is NaN, kept as <<0, 0>>, and
\* x/0 is +-inf, kept as <<+-1, 0>>; a value is defined when its second part
\* is not 0
Sign(n) == IF n > 0 THEN 1 ELSE IF n < 0 THEN -1 ELSE 0
Div(n, d) == IF d = 0 THEN <<Sign(n), 0>> ELSE IF d < 0 THEN Rat(-n, -d) ELSE Rat(n, d)
Defined(a) == a[2] # 0

RInt(n) == <<n, 1>>
RAdd(a, b) == Rat(a[1] * b[2] + b[1] * a[2], a[2] * b[2])
RSub(a, b) == Rat(a[1] * b[2] - b[1] * a[2], a[2] * b[2])
RMulInt(a, k) == Rat(a[1] * k, a[2])
RLeq(a, b) == a[1] * b[2] <= b[1] * a[2]
RLt(a, b) == a[1] * b[2] < b[1] * a[2]
RMax(a, b) == IF RLeq(a, b) THEN b ELSE a
RMin(a, b) == IF RLeq(a, b) THEN a ELSE b

----------------------------------------------------------------------------
(* Optional values *)

None == <<>>
Some(x) == <<x>>
NullSide == "null"

----------------------------------------------------------------------------
(* Settings (src/config.py) *)

DefaultSettings ==
    [ sentiment_buy_threshold        |-> Rat(3, 10),
      sentiment_sell_threshold       |-> Rat(-3, 10),
      max_hours_to_resolve_for_entry |-> MaxHoursToResolveForEntry,
      trade_size_usd                 |-> TradeSizeUsd ]

\* A caller's Settings whose thresholds overlap: a score of 0 meets both.
OverlapSettings ==
    [ DefaultSettings EXCEPT !.sentiment_buy_threshold = Rat(0, 1),
                             !.sentiment_sell_threshold = Rat(0, 1) ]

SettingsChoices == {DefaultSettings, OverlapSettings}

----------------------------------------------------------------------------
(* Inputs: markets, price files, the sentiment frame *)

H(n) == n * UnitsPerHour

\* MarketConfig (src/backtest.py:13-31); outcome is any upper-cased string.
MarketA == [token_id |-> "A", market_id |-> "A", created_at |-> 0,
            resolve_time |-> H(80), outcome |-> "YES"]
MarketB == [token_id |-> "B", market_id |-> "B", created_at |-> H(8),
            resolve_time |-> H(80), outcome |-> "NO"]
MarketC == [token_id |-> "C", market_id |-> "C", created_at |-> 0,
            resolve_time |-> H(8), outcome |-> "VOID"]
Markets == {MarketA, MarketB, MarketC}
\* token_ids = {m.token_id for m in markets} (src/run_backtest.py:34)
ConfiguredTokens(list) == {list[i].token_id : i \in DOMAIN list}

\* Lists of distinct configured markets, in any order.
MarketLists ==
    UNION { { s \in [1..n -> Markets] :
                \A i, j \in 1..n : i # j => s[i] # s[j] } : n \in 0..MaxMarkets }

\* Instants at which a price file may hold a row.
TickTimes == {0, H(8) - 1, H(8), H(80) + 1}
PriceLevels == {25, 75, 80}
TickSet == [ts : TickTimes, price : PriceLevels]

\* Price files are written sorted by ts (src/polymarket_client.py:44).
PriceSeriesSet ==
    UNION { { s \in [1..n -> TickSet] :
                \A i \in 1..(n - 1) : s[i].ts <= s[i + 1].ts } : n \in 0..MaxTicks }

\* The sentiment frame: at most one row per instant of SentimentTimes.
SentimentTimes == {H(8)}
SentimentRowChoices ==
    { None,
      Some([sentiment_score |-> Rat(-1, 2), article_count |-> 2]),
      Some([sentiment_score |-> Rat(1, 2), article_count |-> 4]) }

\* A DataFrame: its rows and whether "ts" is (still) a column or the index.
SentimentFrames ==
    { [ts_is |-> "column", rows |-> r] : r \in [SentimentTimes -> SentimentRowChoices] }

----------------------------------------------------------------------------
(* run_for_market, lines 44-51: the local frames *)

\* df.copy() then in-place changes: the caller's frame is left as it was.
SetIndexTs(df) == [df EXCEPT !.ts_is = "index"]

PrepareSentimentNoCopy(df) ==
    [caller |-> SetIndexTs(df), local |-> SetIndexTs(df)]

PrepareSentiment(df) ==
    [caller |-> df, local |-> SetIndexTs(df)]

\* Boolean-mask filter created_at <= ts <= resolve_time, order kept.
InMarketWindow(m, ts) == m.created_at <= ts /\ ts <= m.resolve_time

RECURSIVE FilterRows(_, _)
FilterRows(m, s) ==
    IF s = <<>> THEN <<>>
    ELSE IF InMarketWindow(m, Head(s).ts)
         THEN <<Head(s)>> \o FilterRows(m, Tail(s))
         ELSE FilterRows(m, Tail(s))

PreparePrices(m, df) == [caller |-> df, local |-> FilterRows(m, df)]

----------------------------------------------------------------------------
(* run_for_market, lines 55-86: one iteration of the scan *)

\* line 56, in model units: hours_to_resolve > max  <=>  units > max * UnitsPerHour
TooEarlyAtCutoff(m, ts, st) ==
    (m.resolve_time - ts) >= st.max_hours_to_resolve_for_entry * UnitsPerHour

TooEarly(m, ts, st) ==
    (m.resolve_time - ts) > st.max_hours_to_resolve_for_entry * UnitsPerHour

\* lines 60-62: exact lookup, neutral default when absent
SentimentAt(sent, ts) ==
    IF ts \in DOMAIN sent.rows /\ sent.rows[ts] # None
    THEN sent.rows[ts][1]
    ELSE [sentiment_score |-> Rat(0, 1), article_count |-> 0]

\* line 64
PriceGateNoUpper(price) == 25 <= price

PriceGate(price) == 25 <= price /\ price <= 75

\* line 57
PositionIsNoneAlways(pos) == TRUE

PositionIsNone(pos) == pos = None

\* lines 58-86, given that position is None: the position opened at this row
EntryDecision(m, row, sent, st) ==
    LET s == SentimentAt(sent, row.ts)
        price == row.price
        no_price == 100 - price
    IN  IF TooEarly(m, row.ts, st) THEN None
        ELSE IF ~PriceGate(price) THEN None
        ELSE IF RLeq(st.sentiment_buy_threshold, s.sentiment_score)
             THEN Some([ side |-> "YES",
                         shares |-> Rat(st.trade_size_usd * 100, price),
                         entry_price |-> price,
                         entry_ts |-> row.ts,
                         article_count_at_entry |-> s.article_count,
                         sentiment_score_at_entry |-> s.sentiment_score ])
        ELSE IF RLeq(s.sentiment_score, st.sentiment_sell_threshold)
             THEN LET shares == IF no_price > 0
                                THEN Rat(st.trade_size_usd * 100, no_price)
                                ELSE Rat(0, 1)
                  IN  IF RLt(Rat(0, 1), shares)
                      THEN Some([ side |-> "NO",
                                  shares |-> shares,
                                  entry_price |-> no_price,
                                  entry_ts |-> row.ts,
                                  article_count_at_entry |-> s.article_count,
                                  sentiment_score_at_entry |-> s.sentiment_score ])
                      ELSE None
        ELSE None

----------------------------------------------------------------------------
(* run_for_market, lines 88-119: settlement *)

PayoffIgnoringSide(pos, outcome) ==
    RMulInt(pos.shares, IF outcome = "YES" THEN 1 ELSE 0)

Payoff(pos, outcome) ==
    IF pos.side = "YES"
    THEN RMulInt(pos.shares, IF outcome = "YES" THEN 1 ELSE 0)
    ELSE RMulInt(pos.shares, IF outcome = "NO" THEN 1 ELSE 0)

TradeResult(m, pos, st) ==
    IF pos = None
    THEN [ market_id |-> m.market_id, token_id |-> m.token_id,
           side |-> NullSide, entry_ts |-> None, resolve_time |-> m.resolve_time,
           entry_price |-> None, outcome |-> m.outcome, pnl |-> Rat(0, 1),
           article_count_at_entry |-> None, sentiment_score_at_entry |-> None ]
    ELSE [ market_id |-> m.market_id, token_id |-> m.token_id,
           side |-> pos[1].side, entry_ts |-> Some(pos[1].entry_ts),
           resolve_time |-> m.resolve_time,
           entry_price |-> Some(pos[1].entry_price), outcome |-> m.outcome,
           pnl |-> RSub(Payoff(pos[1], m.outcome), RInt(st.trade_size_usd)),
           article_count_at_entry |-> Some(pos[1].article_count_at_entry),
           sentiment_score_at_entry |-> Some(pos[1].sentiment_score_at_entry) ]

----------------------------------------------------------------------------
(* The caller and run_for_all_markets *)

\* the parts of the state a specification does not exercise
StatsIdle == df_trades = <<>> /\ summary = None
LabelIdle ==
    /\ df_news = <<>>
    /\ openai_api_key = FALSE
    /\ label_pc = "idle"
    /\ li = 1
    /\ labeled_rows = <<>>
    /\ label_returned = None
    /\ label_error = None
FeaturesIdle ==
    clock = 0 /\ df_labeled_news = <<>> /\ feature_runs = <<>> /\ features_file = None

Init ==
    /\ pc = "start"
    /\ settings \in SettingsChoices
    /\ markets_config \in MarketLists
    /\ price_exists \in [ConfiguredTokens(markets_config) -> BOOLEAN]
    /\ df_sentiment \in SentimentFrames
    /\ sentiment_input = df_sentiment
    /\ df_prices_file = <<>>
    /\ df_prices_read = <<>>
    /\ results = <<>>
    /\ returned = None
    /\ error = None
    /\ mi = 1
    /\ rows = <<>>
    /\ local_sentiment = df_sentiment
    /\ ti = 1
    /\ position = None
    /\ open_log = <<>>
    /\ result = None
    /\ StatsIdle
    /\ FeaturesIdle
    /\ LabelIdle

\* position = None at the start of a run (line 53)
InitialPositionStale(prev) == prev

InitialPosition(prev) == None

\* main, src/run_backtest.py:36-42: every missing price file is fetched and saved
MainFetchPrices ==
    /\ pc = "start"
    /\ pc' = "fetched"
    /\ price_exists' = [t \in ConfiguredTokens(markets_config) |-> TRUE]
    /\ UNCHANGED <<result, settings, markets_config, df_sentiment, sentiment_input,
                   df_prices_file, df_prices_read, results, returned, error, mi,
                   rows, local_sentiment, ti, position, open_log>>
    /\ UNCHANGED <<stats_vars, feature_vars, label_vars>>

\* run_for_all_markets is entered (from main, or by another caller)
CallRunForAllMarkets ==
    /\ pc \in {"start", "fetched"}
    /\ pc' = "loop"
    /\ results' = <<>>
    /\ mi' = 1
    /\ UNCHANGED <<result, settings, markets_config, price_exists, df_sentiment,
                   sentiment_input, df_prices_file, df_prices_read, returned,
                   error, rows, local_sentiment, ti, position, open_log>>
    /\ UNCHANGED <<stats_vars, feature_vars, label_vars>>

\* lines 123-126: the price file of the next market is missing
SkipMissing ==
    /\ pc = "loop"
    /\ mi <= Len(markets_config)
    /\ ~price_exists[markets_config[mi].token_id]
    /\ mi' = mi + 1
    /\ UNCHANGED <<pc, settings, markets_config, price_exists, df_sentiment,
                   sentiment_input, df_prices_file, df_prices_read, results,
                   returned, error, rows, local_sentiment, ti, position,
                   open_log, result>>
    /\ UNCHANGED <<stats_vars, feature_vars, label_vars>>

RaiseMissing ==
    /\ pc = "loop"
    /\ mi <= Len(markets_config)
    /\ ~price_exists[markets_config[mi].token_id]
    /\ pc' = "raised"
    /\ error' = Some([type |-> "FileNotFoundError",
                      token_id |-> markets_config[mi].token_id])
    /\ UNCHANGED <<result, settings, markets_config, price_exists, df_sentiment,
                   sentiment_input, df_prices_file, df_prices_read, results,
                   returned, mi, rows, local_sentiment, ti, position, open_log>>
    /\ UNCHANGED <<stats_vars, feature_vars, label_vars>>

\* lines 127-128 and 44-53: the file is read and run_for_market starts
LoadMarket ==
    /\ pc = "loop"
    /\ mi <= Len(markets_config)
    /\ price_exists[markets_config[mi].token_id]
    /\ \E file \in PriceSeriesSet :
         LET m == markets_config[mi]
             p == PreparePrices(m, file)
             s == PrepareSentiment(df_sentiment)
         IN  IF df_sentiment.ts_is # "column"
             THEN \* df_sentiment["ts"] raises KeyError
                  /\ pc' = "raised"
                  /\ error' = Some([type |-> "KeyError", token_id |-> m.token_id])
                  /\ UNCHANGED <<df_sentiment, df_prices_file, df_prices_read,
                                 rows, local_sentiment, ti, position, open_log>>
             ELSE /\ pc' = "scan"
                  /\ df_prices_read' = file
                  /\ df_prices_file' = p.caller
                  /\ rows' = p.local
                  /\ df_sentiment' = s.caller
                  /\ local_sentiment' = s.local
                  /\ ti' = 1
                  /\ position' = InitialPosition(position)
                  /\ open_log' = <<>>
                  /\ error' = error
    /\ UNCHANGED <<settings, markets_config, price_exists, sentiment_input,
                   results, returned, mi, result>>
    /\ UNCHANGED <<stats_vars, feature_vars, label_vars>>

\* lines 55-86: one row of the scan
Tick ==
    /\ pc = "scan"
    /\ ti <= Len(rows)
    /\ LET m == markets_config[mi]
           row == rows[ti]
           dec == IF PositionIsNone(position)
                  THEN EntryDecision(m, row, local_sentiment, settings)
                  ELSE None
       IN  /\ position' = IF dec # None THEN dec ELSE position
           /\ open_log' = IF dec # None
                          THEN Append(open_log,
                                      [tick |-> ti, ts |-> row.ts,
                                       price |-> row.price, pos |-> dec[1]])
                          ELSE open_log
    /\ ti' = ti + 1
    /\ UNCHANGED <<result, pc, settings, markets_config, price_exists, df_sentiment,
                   sentiment_input, df_prices_file, df_prices_read, results,
                   returned, error, mi, rows, local_sentiment>>
    /\ UNCHANGED <<stats_vars, feature_vars, label_vars>>

\* lines 88-119: the scan is over, the TradeResult is built and returned
Settle ==
    /\ pc = "scan"
    /\ ti > Len(rows)
    /\ result' = Some(TradeResult(markets_config[mi], position, settings))
    /\ pc' = "settled"
    /\ UNCHANGED <<settings, markets_config, price_exists, df_sentiment,
                   sentiment_input, df_prices_file, df_prices_read, results,
                   returned, error, mi, rows, local_sentiment, ti, position,
                   open_log>>
    /\ UNCHANGED <<stats_vars, feature_vars, label_vars>>

\* line 129: the result is appended; run_for_market's locals are gone
AppendResult ==
    /\ pc = "settled"
    /\ results' = Append(results, result[1])
    /\ mi' = mi + 1
    /\ pc' = "loop"
    /\ result' = None
    /\ df_prices_file' = <<>>
    /\ df_prices_read' = <<>>
    /\ rows' = <<>>
    /\ local_sentiment' = df_sentiment
    /\ ti' = 1
    /\ open_log' = <<>>
    /\ UNCHANGED <<settings, markets_config, price_exists, df_sentiment,
                   sentiment_input, returned, error, position>>
    /\ UNCHANGED <<stats_vars, feature_vars, label_vars>>

\* line 130
ReturnResults ==
    /\ pc = "loop"
    /\ mi > Len(markets_config)
    /\ returned' = Some(results)
    /\ pc' = "returned"
    /\ UNCHANGED <<result, settings, markets_config, price_exists, df_sentiment,
                   sentiment_input, df_prices_file, df_prices_read, results,
                   error, mi, rows, local_sentiment, ti, position, open_log>>
    /\ UNCHANGED <<stats_vars, feature_vars, label_vars>>

Next ==
    \/ MainFetchPrices
    \/ CallRunForAllMarkets
    \/ RaiseMissing
    \/ LoadMarket
    \/ Tick
    \/ Settle
    \/ AppendResult
    \/ ReturnResults

Spec == Init /\ [][Next]_vars

----------------------------------------------------------------------------
(* Backtester.summarize_trades (src/backtest.py:132-160) *)

\* The rows of df_trades: a side (or null) and a pnl.
TradeSides == {NullSide, "YES", "NO"}
PnlLevels == {Rat(-100, 1), Rat(0, 1), Rat(100, 3), Rat(300, 1)}
TradeRows == [side : TradeSides, pnl : PnlLevels]
TradeFrames == UNION { [1..n -> TradeRows] : n \in 0..MaxRows }

\* Series.cumsum()
RECURSIVE CumSum(_)
CumSum(xs) ==
    IF xs = <<>> THEN <<>>
    ELSE LET init == CumSum(SubSeq(xs, 1, Len(xs) - 1))
         IN  Append(init, IF init = <<>> THEN xs[1]
                          ELSE RAdd(init[Len(init)], xs[Len(xs)]))

\* Series.cummax()
RECURSIVE CumMax(_)
CumMax(xs) ==
    IF xs = <<>> THEN <<>>
    ELSE LET init == CumMax(SubSeq(xs, 1, Len(xs) - 1))
         IN  Append(init, IF init = <<>> THEN xs[1]
                          ELSE RMax(init[Len(init)], xs[Len(xs)]))

\* Series.min() of a non-empty series
RECURSIVE SeriesMin(_)
SeriesMin(xs) ==
    IF Len(xs) = 1 THEN xs[1]
    ELSE RMin(xs[1], SeriesMin(Tail(xs)))

\* line 151
DrawdownFromTrough(equity, running_max) ==
    [i \in DOMAIN equity |-> RSub(running_max[i], equity[i])]

Drawdown(equity, running_max) ==
    [i \in DOMAIN equity |-> RSub(equity[i], running_max[i])]

\* line 145
WinRateUnguarded(wins, num_trades) == Div(wins, num_trades)

WinRate(wins, num_trades) ==
    IF num_trades # 0 THEN Div(wins, num_trades) ELSE <<0, 1>>

SummarizeTrades(df) ==
    IF df = <<>>
    THEN [ num_trades |-> 0, win_rate |-> <<0, 1>>, avg_pnl |-> <<0, 1>>,
           total_pnl |-> <<0, 1>>, max_drawdown |-> <<0, 1>> ]
    ELSE LET pnl == [i \in DOMAIN df |-> df[i].pnl]
             num_trades == Cardinality({i \in DOMAIN df : df[i].side # NullSide})
             wins == Cardinality({i \in DOMAIN df : RLt(<<0, 1>>, df[i].pnl)})
             equity_curve == CumSum(pnl)
             running_max == CumMax(equity_curve)
             total_pnl == equity_curve[Len(df)]
         IN  [ num_trades |-> num_trades,
               win_rate |-> WinRate(wins, num_trades),
               avg_pnl |-> Rat(total_pnl[1], total_pnl[2] * Len(df)),
               total_pnl |-> total_pnl,
               max_drawdown |-> SeriesMin(Drawdown(equity_curve, running_max)) ]

\* the parts of the state the specifications of the other components leave alone
BacktestIdle ==
    /\ pc = "idle"
    /\ settings = DefaultSettings
    /\ markets_config = <<>>
    /\ price_exists = <<>>
    /\ df_sentiment = [ts_is |-> "column", rows |-> <<>>]
    /\ sentiment_input = df_sentiment
    /\ df_prices_file = <<>>
    /\ df_prices_read = <<>>
    /\ results = <<>>
    /\ returned = None
    /\ error = None
    /\ mi = 1
    /\ rows = <<>>
    /\ local_sentiment = df_sentiment
    /\ ti = 1
    /\ position = None
    /\ open_log = <<>>
    /\ result = None

InitStats ==
    /\ BacktestIdle
    /\ FeaturesIdle
    /\ LabelIdle
    /\ df_trades \in TradeFrames
    /\ summary = None

\* summarize_trades(df_trades)
Summarize ==
    /\ summary = None
    /\ summary' = Some(SummarizeTrades(df_trades))
    /\ UNCHANGED <<df_trades, backtest_vars, feature_vars, label_vars>>

NextStats == Summarize

SpecStats == InitStats /\ [][NextStats]_vars

----------------------------------------------------------------------------
(* build_macro_sentiment_timeseries (src/features.py:9-75) *)

\* Labeled news: published_at, relevance in {0, 1}, sentiment in {-1, 0, 1}.
ClockStart == H(6)
ClockEnd == H(7) + 1
EventTimes == {H(2) + 1, H(3), H(5) + 1, H(6) + 1}
NewsEvents ==
    [published_at : EventTimes, relevance : {1}, sentiment : {-1, 0, 1}]
      \cup {[published_at |-> H(5), relevance |-> 0, sentiment |-> 0]}
NewsFrames == UNION { [1..n -> NewsEvents] : n \in 0..MaxEvents }

RECURSIVE SumOver(_, _)
SumOver(S, f) ==
    IF S = {} THEN 0
    ELSE LET x == CHOOSE y \in S : TRUE
         IN  f[x] + SumOver(S \ {x}, f)

\* line 14
Relevant(df) == SelectSeq(df, LAMBDA e : e.relevance = 1)

\* the label of the 1h bin an instant falls in (resample("1h"))
HourFloor(t) == t - (t % UnitsPerHour)

\* lines 24-30: the bins from the first to the last event's hour, each with the
\* sum of `col` over its events (0 for a bin without events)
ResampleIndex(df) ==
    LET floors == {HourFloor(df[i].published_at) : i \in DOMAIN df}
        lo == CHOOSE x \in floors : \A y \in floors : x <= y
        hi == CHOOSE x \in floors : \A y \in floors : y <= x
    IN  {h \in lo..hi : h % UnitsPerHour = 0}

BinSum(df, col, h) ==
    SumOver({i \in DOMAIN df : HourFloor(df[i].published_at) = h},
            [i \in DOMAIN df |-> col[i]])

\* line 32: pd.date_range(start, end, freq="1h"): start, start + 1h, ... <= end
DateRange(start, end) ==
    IF end < start THEN <<>>
    ELSE [k \in 1..(((end - start) \div UnitsPerHour) + 1) |->
              start + (k - 1) * UnitsPerHour]

\* lines 32, 43, 53: reindex(index, fill_value=0): the bin labelled exactly t
Reindex(df, col, t) ==
    IF t \in ResampleIndex(df) THEN BinSum(df, col, t) ELSE 0

\* lines 34-36: rolling(window="<w>h", min_periods=1).sum() at row k: the rows
\* whose label lies in (index[k] - w hours, index[k]]
Rolling(df, col, index, k, window_hours) ==
    SumOver({j \in DOMAIN index :
                 /\ index[k] - window_hours * UnitsPerHour < index[j]
                 /\ index[j] <= index[k]},
            [j \in DOMAIN index |-> Reindex(df, col, index[j])])

\* lines 58-60: rolling_count.replace({0: 1})
ReplaceZeroMissing(count) == count

ReplaceZero(count) == IF count = 0 THEN 1 ELSE count

\* lines 9-75 (without the write of the parquet file), with the two readings
\* now1, now2 of the clock at lines 18 and 19
BuildFeatures(df_labeled, now1, now2) ==
    IF df_labeled = <<>> THEN <<>>
    ELSE LET df == Relevant(df_labeled)
         IN  IF df = <<>> THEN <<>>
             ELSE LET start_time == now1 - H(LookbackHours)
                      end_time == now2
                      index == DateRange(start_time, end_time)
                      ones == [i \in DOMAIN df |-> 1]
                      sent == [i \in DOMAIN df |-> df[i].sentiment]
                      bull == [i \in DOMAIN df |-> IF df[i].sentiment = 1 THEN 1 ELSE 0]
                      bear == [i \in DOMAIN df |-> IF df[i].sentiment = -1 THEN 1 ELSE 0]
                      w == SentimentWindowHours
                  IN  [k \in DOMAIN index |->
                         LET rolling_count == Rolling(df, ones, index, k, w)
                             rolling_sum == Rolling(df, sent, index, k, w)
                             bullish == Rolling(df, bull, index, k, w)
                             bearish == Rolling(df, bear, index, k, w)
                         IN  [ ts |-> index[k],
                               sentiment_score |-> Div(rolling_sum, ReplaceZero(rolling_count)),
                               bullish_ratio |-> Div(bullish, ReplaceZero(rolling_count)),
                               bearish_ratio |-> Div(bearish, ReplaceZero(rolling_count)),
                               article_count |-> rolling_count ]]

InitFeatures ==
    /\ BacktestIdle
    /\ StatsIdle
    /\ LabelIdle
    /\ clock \in {ClockStart, ClockStart + 1}
    /\ df_labeled_news \in NewsFrames
    /\ feature_runs = <<>>
    /\ features_file = None

\* time passes between two calls
AdvanceClock ==
    /\ clock < ClockEnd
    /\ clock' = clock + 1
    /\ UNCHANGED <<df_labeled_news, feature_runs, features_file,
                   backtest_vars, stats_vars, label_vars>>

\* one call of build_macro_sentiment_timeseries(df_labeled_news, settings); the
\* clock may move between its two readings; lines 72-74 write the file unless
\* the call returned early at line 11 or 16
CallBuildFeatures ==
    /\ Len(feature_runs) < MaxRuns
    /\ \E d \in {0, 1} :
         /\ clock + d <= ClockEnd
         /\ LET features == BuildFeatures(df_labeled_news, clock, clock + d)
            IN  /\ feature_runs' = Append(feature_runs, features)
                /\ features_file' = IF Relevant(df_labeled_news) = <<>>
                                    THEN features_file
                                    ELSE Some(features)
         /\ clock' = clock + d
    /\ UNCHANGED <<df_labeled_news, backtest_vars, stats_vars, label_vars>>

NextFeatures ==
    \/ AdvanceClock
    \/ CallBuildFeatures

SpecFeatures == InitFeatures /\ [][NextFeatures]_vars

----------------------------------------------------------------------------
(* label_news_articles (src/sentiment_labeler.py:22-86) *)

\* A value found under a key of the answer's JSON object: an integer, a number
\* with a fraction, a word such as "high", or no such key.
JsonInt(n) == [t |-> "int", num |-> <<n, 1>>]
JsonFloat(n, d) == [t |-> "float", num |-> Rat(n, d)]
JsonWord == [t |-> "word", num |-> <<0, 1>>]
JsonAbsent == [t |-> "absent", num |-> <<0, 1>>]

\* message.content: None, text that is not JSON, a JSON array, or a JSON object
\* (the key "topic" is left out: it is copied and cannot raise)
JsonDoc(kind, rel, sen) == [json |-> kind, relevance |-> rel, sentiment |-> sen]
ContentChoices ==
    { JsonDoc(k, JsonAbsent, JsonAbsent) : k \in {"none", "invalid", "array"} }
      \cup { JsonDoc("object", r, x) :
               r \in {JsonInt(1), JsonAbsent, JsonWord, JsonFloat(3, 2)},
               x \in {JsonInt(-1), JsonWord} }

\* what client.chat.completions.create does for an article
ResponseChoices ==
    { [outcome |-> "api_error", content |-> JsonDoc("none", JsonAbsent, JsonAbsent)] }
      \cup { [outcome |-> "content", content |-> c] : c \in ContentChoices }

ArticleTimes == {H(3), H(5) + 1}
NewsArticles == [published_at : ArticleTimes, response : ResponseChoices]
ArticleFrames == UNION { [1..n -> NewsArticles] : n \in 0..MaxArticles }

\* lines 26 and 71
DefaultLabel == JsonDoc("object", JsonInt(0), JsonInt(0))

\* lines 22-26: json.loads(text); only JSONDecodeError is caught here
\* (json.loads(None) raises TypeError)
ParseResponse(content) ==
    IF content.json = "invalid" THEN [raised |-> "", value |-> DefaultLabel]
    ELSE IF content.json = "none" THEN [raised |-> "TypeError", value |-> DefaultLabel]
    ELSE [raised |-> "", value |-> content]

\* lines 59-71: the try block, `except Exception` giving the default
ParsedFor(response) ==
    IF response.outcome = "api_error" THEN DefaultLabel
    ELSE LET p == ParseResponse(response.content)
         IN  IF p.raised # "" THEN DefaultLabel ELSE p.value

\* lines 75-76: int(parsed.get(key, 0) or 0)
PyInt(v) ==
    IF v.t = "absent" THEN [raised |-> "", value |-> 0]
    ELSE IF v.t = "int" THEN [raised |-> "", value |-> v.num[1]]
    ELSE IF v.t = "float"
         THEN [raised |-> "",
               value |-> Sign(v.num[1]) * (Abs(v.num[1]) \div v.num[2])]
    ELSE [raised |-> "ValueError", value |-> 0]

\* lines 72-77: the row appended for an article, or the exception raised
LabeledRow(i, article) ==
    LET parsed == ParsedFor(article.response)
        rel == PyInt(parsed.relevance)
        sen == PyInt(parsed.sentiment)
        row == [id |-> i, published_at |-> article.published_at,
                relevance |-> rel.value, sentiment |-> sen.value]
    IN  IF parsed.json # "object" THEN [raised |-> "AttributeError", row |-> row]
        ELSE IF rel.raised # "" THEN [raised |-> rel.raised, row |-> row]
        ELSE IF sen.raised # "" THEN [raised |-> sen.raised, row |-> row]
        ELSE [raised |-> "", row |-> row]

\* line 80: sort_values("published_at")
RECURSIVE SortByPublished(_)
SortByPublished(rs) ==
    IF rs = <<>> THEN <<>>
    ELSE LET init == SortByPublished(SubSeq(rs, 1, Len(rs) - 1))
             x == rs[Len(rs)]
             before == SelectSeq(init, LAMBDA r : r.published_at <= x.published_at)
             after == SelectSeq(init, LAMBDA r : r.published_at > x.published_at)
         IN  before \o <<x>> \o after

InitLabel ==
    /\ BacktestIdle
    /\ StatsIdle
    /\ FeaturesIdle
    /\ df_news \in ArticleFrames
    /\ openai_api_key \in BOOLEAN
    /\ label_pc = "start"
    /\ li = 1
    /\ labeled_rows = <<>>
    /\ label_returned = None
    /\ label_error = None

\* lines 30-31: an empty frame is returned with the default columns
LabelEmpty ==
    /\ label_pc = "start"
    /\ df_news = <<>>
    /\ label_returned' = Some(<<>>)
    /\ label_pc' = "returned"
    /\ UNCHANGED <<df_news, openai_api_key, li, labeled_rows, label_error,
                   backtest_vars, stats_vars, feature_vars>>

\* lines 33-34
LabelNoKey ==
    /\ label_pc = "start"
    /\ df_news # <<>>
    /\ ~openai_api_key
    /\ label_error' = Some([type |-> "ValueError", article |-> 0])
    /\ label_pc' = "raised"
    /\ UNCHANGED <<df_news, openai_api_key, li, labeled_rows, label_returned,
                   backtest_vars, stats_vars, feature_vars>>

\* lines 36-37
LabelStart ==
    /\ label_pc = "start"
    /\ df_news # <<>>
    /\ openai_api_key
    /\ labeled_rows' = <<>>
    /\ li' = 1
    /\ label_pc' = "loop"
    /\ UNCHANGED <<df_news, openai_api_key, label_returned, label_error,
                   backtest_vars, stats_vars, feature_vars>>

\* lines 58-77: one article (the batches of lines 39-56 only group them)
LabelArticle ==
    /\ label_pc = "loop"
    /\ li <= Len(df_news)
    /\ LET out == LabeledRow(li, df_news[li])
       IN  IF out.raised # ""
           THEN /\ label_error' = Some([type |-> out.raised, article |-> li])
                /\ label_pc' = "raised"
                /\ UNCHANGED <<li, labeled_rows>>
           ELSE /\ labeled_rows' = Append(labeled_rows, out.row)
                /\ li' = li + 1
                /\ UNCHANGED <<label_pc, label_error>>
    /\ UNCHANGED <<df_news, openai_api_key, label_returned,
                   backtest_vars, stats_vars, feature_vars>>

\* lines 79-86
LabelReturn ==
    /\ label_pc = "loop"
    /\ li > Len(df_news)
    /\ label_returned' = Some(SortByPublished(labeled_rows))
    /\ label_pc' = "returned"
    /\ UNCHANGED <<df_news, openai_api_key, li, labeled_rows, label_error,
                   backtest_vars, stats_vars, feature_vars>>

NextLabel ==
    \/ LabelEmpty
    \/ LabelNoKey
    \/ LabelStart
    \/ LabelArticle
    \/ LabelReturn

SpecLabel == InitLabel /\ [][NextLabel]_vars

----------------------------------------------------------------------------
(* Properties of run_for_market and run_for_all_markets *)

InRun == pc \in {"scan", "settled"}
CurrentMarket == markets_config[mi]

\* C1: in a run of run_for_market at most one position is opened; from the
\* opening tick on, `position` is the value assigned then; and the TradeResult
\* returned carries the side, entry_price, entry_ts (and the sentiment
\* snapshot) of that opening, or null fields when nothing was opened.
C1_SinglePosition ==
    InRun =>
        /\ Len(open_log) <= 1
        /\ open_log = <<>> => position = None
        /\ open_log # <<>> => position = Some(open_log[1].pos)
        /\ pc = "settled" =>
             IF open_log = <<>>
             THEN /\ result[1].side = NullSide
                  /\ result[1].entry_ts = None
                  /\ result[1].entry_price = None
             ELSE /\ result[1].side = open_log[1].pos.side
                  /\ result[1].entry_ts = Some(open_log[1].ts)
                  /\ result[1].entry_price = Some(open_log[1].pos.entry_price)
                  /\ result[1].sentiment_score_at_entry =
                         Some(open_log[1].pos.sentiment_score_at_entry)
                  /\ result[1].article_count_at_entry =
                         Some(open_log[1].pos.article_count_at_entry)

\* a run in which a later row, which would itself open a position, was scanned
\* after the opening
C1_Witness ==
    /\ pc = "settled"
    /\ Len(open_log) = 1
    /\ \E j \in (open_log[1].tick + 1)..Len(rows) :
         /\ EntryDecision(CurrentMarket, rows[j], local_sentiment, settings) # None
         /\ rows[j].price # open_log[1].price

\* C2: every opening happens at a row whose observed YES price is in
\* [0.25, 0.75], whose hours_to_resolve is at most
\* max_hours_to_resolve_for_entry and whose ts is in [created_at, resolve_time];
\* a position exists only through such an opening.
C2_EntryGate ==
    InRun =>
        /\ position # None => open_log # <<>>
        /\ \A k \in DOMAIN open_log :
             LET e == open_log[k]
                 m == CurrentMarket
             IN  /\ 25 <= e.price /\ e.price <= 75
                 /\ m.resolve_time - e.ts
                        <= settings.max_hours_to_resolve_for_entry * UnitsPerHour
                 /\ m.created_at <= e.ts /\ e.ts <= m.resolve_time
                 /\ e.pos.entry_ts = e.ts

\* a NO position opened exactly at the cutoff, at the upper edge of the gate
C2_Witness ==
    /\ InRun
    /\ open_log # <<>>
    /\ open_log[1].price = 75
    /\ open_log[1].pos.side = "NO"
    /\ CurrentMarket.resolve_time - open_log[1].ts
           = settings.max_hours_to_resolve_for_entry * UnitsPerHour

\* C3: settlement.  Without a position the result has null side and pnl 0.
\* Otherwise entry_price is the observed YES price (YES) or 1 - it (NO),
\* shares * entry_price = trade_size_usd, and pnl = shares - trade_size_usd
\* when the side equals the outcome and -trade_size_usd when it does not.
C3_Settlement ==
    pc = "settled" =>
        LET r == result[1]
            t == settings.trade_size_usd
        IN  IF open_log = <<>>
            THEN r.side = NullSide /\ r.pnl = <<0, 1>>
            ELSE LET e == open_log[1]
                     ep == IF r.side = "YES" THEN e.price ELSE 100 - e.price
                     sh == position[1].shares
                 IN  /\ r.side \in {"YES", "NO"}
                     /\ r.entry_price = Some(ep)
                     /\ sh[1] * ep = t * 100 * sh[2]
                     /\ IF r.side = CurrentMarket.outcome
                        THEN r.pnl = RSub(sh, RInt(t))
                        ELSE r.pnl = <<-t, 1>>

\* a NO position that wins, entered at YES price 0.25
C3_Witness ==
    /\ pc = "settled"
    /\ result[1].side = "NO"
    /\ CurrentMarket.outcome = "NO"
    /\ open_log[1].price = 25
    /\ result[1].pnl = Rat(100, 3)

FirstMissing(list, exists) ==
    LET missing == {i \in DOMAIN list : ~exists[list[i].token_id]}
    IN  CHOOSE i \in missing : \A j \in missing : i <= j

SomeMissing == \E i \in DOMAIN markets_config : ~price_exists[markets_config[i].token_id]

\* C4: once run_for_all_markets has been entered, if a configured market has no
\* price file the call ends by raising FileNotFoundError naming the first such
\* market and returns nothing (it never returns normally); a normal return
\* holds exactly one row per configured market, in configuration order.
C4_FailFast ==
    /\ pc # "returned" => returned = None
    /\ pc = "raised" =>
         /\ SomeMissing
         /\ error = Some([type |-> "FileNotFoundError",
                          token_id |-> markets_config[
                              FirstMissing(markets_config, price_exists)].token_id])
         /\ Len(results) = FirstMissing(markets_config, price_exists) - 1
    /\ pc = "returned" =>
         /\ ~SomeMissing
         /\ error = None
         /\ Len(returned[1]) = Len(markets_config)
         /\ \A i \in DOMAIN markets_config :
              /\ returned[1][i].token_id = markets_config[i].token_id
              /\ returned[1][i].market_id = markets_config[i].market_id
    /\ (pc = "loop" /\ mi > 1 /\ SomeMissing) =>
         FirstMissing(markets_config, price_exists) >= mi

\* the second market's file is missing after the first market was simulated:
\* the row already computed is not returned
C4_Witness ==
    /\ pc = "raised"
    /\ Len(results) = 1
    /\ results[1].side # NullSide
    /\ returned = None

\* run_for_market as a function of its own arguments alone
RECURSIVE ScanAlone(_, _, _, _, _)
ScanAlone(m, rws, sent, st, pos) ==
    IF rws = <<>> THEN pos
    ELSE LET dec == IF pos = None THEN EntryDecision(m, Head(rws), sent, st) ELSE None
         IN  ScanAlone(m, Tail(rws), sent, st, IF dec # None THEN dec ELSE pos)

RunAlone(m, file, sent, st) ==
    TradeResult(m, ScanAlone(m, FilterRows(m, file), SetIndexTs(sent), st, None), st)

C10_Score(ts) ==
    IF ts \in DOMAIN sentiment_input.rows /\ sentiment_input.rows[ts] # None
    THEN sentiment_input.rows[ts][1].sentiment_score
    ELSE <<0, 1>>

C10_MeetsBuy(ts) == RLeq(settings.sentiment_buy_threshold, C10_Score(ts))
C10_MeetsSell(ts) == RLeq(C10_Score(ts), settings.sentiment_sell_threshold)

C10_Qualifies(i) ==
    /\ CurrentMarket.resolve_time - rows[i].ts
           <= settings.max_hours_to_resolve_for_entry * UnitsPerHour
    /\ 25 <= rows[i].price /\ rows[i].price <= 75
    /\ \/ C10_MeetsBuy(rows[i].ts)
       \/ C10_MeetsSell(rows[i].ts) /\ 100 - rows[i].price > 0

C10_Sorted == \A i \in 1..(Len(rows) - 1) : rows[i].ts <= rows[i + 1].ts

----------------------------------------------------------------------------
(* Properties of summarize_trades *)

\* sum of the first i pnl values of df_trades
RECURSIVE C5_Prefix(_)
C5_Prefix(i) == IF i = 0 THEN <<0, 1>> ELSE RAdd(C5_Prefix(i - 1), df_trades[i].pnl)

\* cumulative pnl at row i minus the largest cumulative pnl of rows 1..i
C5_DrawdownAt(i) ==
    LET peak == CHOOSE k \in 1..i : \A j \in 1..i : RLeq(C5_Prefix(j), C5_Prefix(k))
    IN  RSub(C5_Prefix(i), C5_Prefix(peak))

\* C5: max_drawdown is the least, over the rows, of cumulative pnl minus the
\* running maximum of the cumulative pnl; it is never positive, and it is 0 when
\* no pnl is negative and when there are no rows.
C5_MaxDrawdown ==
    summary # None =>
        LET md == summary[1].max_drawdown
        IN  /\ Defined(md)
            /\ RLeq(md, <<0, 1>>)
            /\ df_trades = <<>> => md = <<0, 1>>
            /\ df_trades # <<>> =>
                 /\ \A i \in DOMAIN df_trades : RLeq(md, C5_DrawdownAt(i))
                 /\ \E i \in DOMAIN df_trades : md = C5_DrawdownAt(i)
            /\ (\A i \in DOMAIN df_trades : RLeq(<<0, 1>>, df_trades[i].pnl))
                 => md = <<0, 1>>

\* a loss after a peak, then a partial recovery: the drawdown is the loss
C5_Witness ==
    /\ summary # None
    /\ Len(df_trades) = 3
    /\ df_trades[1].pnl = Rat(300, 1)
    /\ df_trades[2].pnl = Rat(-100, 1)
    /\ df_trades[3].pnl = Rat(100, 3)
    /\ summary[1].max_drawdown = Rat(-100, 1)

\* C6: num_trades is the number of rows with non-null side; win_rate is the
\* number of rows with pnl > 0 divided by num_trades, and is 0, never undefined,
\* when num_trades = 0, also for a non-empty collection of null-side rows.
C6_WinRate ==
    summary # None =>
        LET n == Cardinality({i \in DOMAIN df_trades : df_trades[i].side # NullSide})
            w == Cardinality({i \in DOMAIN df_trades : df_trades[i].pnl[1] > 0})
            wr == summary[1].win_rate
        IN  /\ summary[1].num_trades = n
            /\ Defined(wr)
            /\ n = 0 => wr = <<0, 1>>
            /\ n > 0 => wr[1] * n = w * wr[2]

\* a non-empty collection whose rows all have null side
C6_Witness ==
    /\ summary # None
    /\ Len(df_trades) = 2
    /\ \A i \in DOMAIN df_trades : df_trades[i].side = NullSide
    /\ summary[1].num_trades = 0
    /\ summary[1].win_rate = <<0, 1>>

----------------------------------------------------------------------------
(* Properties of build_macro_sentiment_timeseries *)

\* C7: two calls on the same labeled news and the same settings return the
\* same series (same timestamps, same values), whenever each call is made.
C7_Idempotent ==
    \A i, j \in DOMAIN feature_runs : feature_runs[i] = feature_runs[j]

\* C8: in every series returned, the three ratios of every row are defined, and
\* they are all 0 in every row whose article_count is 0.
C8_ZeroCountRows ==
    \A r \in DOMAIN feature_runs :
        \A k \in DOMAIN feature_runs[r] :
            LET row == feature_runs[r][k]
            IN  /\ Defined(row.sentiment_score)
                /\ Defined(row.bullish_ratio)
                /\ Defined(row.bearish_ratio)
                /\ row.article_count = 0 =>
                     /\ row.sentiment_score = <<0, 1>>
                     /\ row.bullish_ratio = <<0, 1>>
                     /\ row.bearish_ratio = <<0, 1>>

\* a series with a row whose window holds no article and a row whose window
\* holds bearish articles only
C8_Witness ==
    \E r \in DOMAIN feature_runs :
        /\ \E k \in DOMAIN feature_runs[r] : feature_runs[r][k].article_count = 0
        /\ \E k \in DOMAIN feature_runs[r] :
             /\ feature_runs[r][k].article_count = 2
             /\ feature_runs[r][k].sentiment_score = <<-1, 1>>
             /\ feature_runs[r][k].bearish_ratio = <<1, 1>>

\* the relevant articles handed in
C11_Relevant == {i \in DOMAIN df_labeled_news : df_labeled_news[i].relevance = 1}

\* the articles published in the SentimentWindowHours one-hour bins that end
\* with the bin of the row stamped t, leaving out the bins before the first row
C11_InWindow(frame, t) ==
    {i \in C11_Relevant :
        \E j \in 0..(SentimentWindowHours - 1) :
            LET bin == t - j * UnitsPerHour
            IN  /\ frame[1].ts <= bin
                /\ bin <= df_labeled_news[i].published_at
                /\ df_labeled_news[i].published_at < bin + UnitsPerHour}

C11_RowCounts(frame, k) ==
    LET in == C11_InWindow(frame, frame[k].ts)
        total == SumOver(in, [i \in DOMAIN df_labeled_news |->
                                   df_labeled_news[i].sentiment])
    IN  /\ frame[k].article_count = Cardinality(in)
        /\ in # {} =>
             frame[k].sentiment_score[1] * Cardinality(in)
                 = total * frame[k].sentiment_score[2]

\* C11: whatever the clock reads, every row of a returned series has
\* article_count = the number of relevant articles published in the
\* sentiment_window_hours one-hour bins ending with the row's own bin, and
\* sentiment_score = the sum of their labels divided by that number.
C11_TrailingCounts ==
    \A r \in DOMAIN feature_runs :
        \A k \in DOMAIN feature_runs[r] : C11_RowCounts(feature_runs[r], k)

----------------------------------------------------------------------------
(* Properties of label_news_articles *)

\* an answer that gives no usable label: a failed call, no content, text that
\* is not JSON, JSON that is not an object, or a relevance or sentiment that is
\* not an integer
C12_Unusable(response) ==
    \/ response.outcome = "api_error"
    \/ response.content.json # "object"
    \/ response.content.relevance.t \in {"word", "float"}
    \/ response.content.sentiment.t \in {"word", "float"}

\* C12: no answer of the labeling API makes label_news_articles raise (it
\* raises only for the missing API key, before any article); every article
\* whose answer is unusable gets relevance 0 and sentiment 0; and a call that
\* returns has labeled every article.
C12_MalformedLabelNeutral ==
    /\ label_error # None => label_error[1].article = 0
    /\ \A k \in DOMAIN labeled_rows :
         C12_Unusable(df_news[labeled_rows[k].id].response) =>
             labeled_rows[k].relevance = 0 /\ labeled_rows[k].sentiment = 0
    /\ label_pc = "returned" => Len(label_returned[1]) = Len(df_news)

====
